---- MODULE Spec2Model ----
(***************************************************************************)
(* Model of the dtn7 bundle forwarding engine (pkg/processing) and of the  *)
(* MTCP convergence sender (MTCPClient).                                   *)
(*                                                                         *)
(* Spec      : the forwarding engine: dispatch sweeps, one forwardingAsync *)
(*             goroutine per launched bundle, one goroutine per peer of a  *)
(*             fan-out.  A peer is an abstract ConvergenceSender whose     *)
(*             Send returns nil, returns an error, or does not return.     *)
(* MTCPSpec  : one MTCPClient: Activate, its handler goroutine, goroutines *)
(*             calling Send, and a caller of Close.                        *)
(***************************************************************************)
EXTENDS Naturals, Sequences, FiniteSets

\* ---------------------------------------------------------------- bounds
NBundles == 2
NPeers == 3
MaxTasks == 2
MaxSweeps == 2
NSenders == 2
NClosers == 1

Bundles == 1..NBundles
Peers == 1..NPeers
Tasks == 1..MaxTasks
Sweeps == 1..MaxSweeps

\* the goroutines that touch one MTCPClient: its handler, the callers of Send and
\* the callers of Close
Handler == << "handler", 0 >>
Sender(c) == << "Send", c >>
Closer(k) == << "Close", k >>
NoOne == << "none", 0 >>
Senders == {Sender(c) : c \in 1..NSenders}
Closers == {Closer(k) : k \in 1..NClosers}
MProcs == {Handler} \cup Senders \cup Closers

\* ------------------------------------------------- store/constraints.go
DispatchPending == 0
ForwardPending == 1
ReassemblyPending == 2
Constraint == {DispatchPending, ForwardPending, ReassemblyPending}

\* ------------------------------------------------------- identities
NodeID == <<"dtn", "self">>
OtherNode == <<"dtn", "previous-hop">>
GetPeerEndpointID(p) == <<"dtn", "peer", p>>

\* ------------------------------------------------ bundles and blocks
PayloadBlock == "PayloadBlock"
ExtBlockTypePreviousNodeBlock == "PreviousNodeBlock"

\* The bundle a descriptor materializes: a payload block and, for the odd
\* bundles, a previous-node block written by the hop the bundle came from.
StoredBundle(b) ==
  IF b % 2 = 1
    THEN << [type |-> ExtBlockTypePreviousNodeBlock, num |-> 2, data |-> OtherNode],
            [type |-> PayloadBlock, num |-> 1, data |-> <<"payload", b>>] >>
    ELSE << [type |-> PayloadBlock, num |-> 1, data |-> <<"payload", b>>] >>

NoBundle == << >>

\* bundle.ExtensionBlock(type): the first block of that type, or an error
HasExtensionBlock(bndl, ty) == \E i \in 1..Len(bndl) : bndl[i].type = ty
ExtensionBlock(bndl, ty) ==
  bndl[CHOOSE i \in 1..Len(bndl) :
         /\ bndl[i].type = ty
         /\ \A j \in 1..(i - 1) : bndl[j].type # ty]

RemoveExtensionBlockByBlockNumber(bndl, n) ==
  SelectSeq(bndl, LAMBDA blk : blk.num # n)

\* NewCanonicalBlock(0, 0, ...): block number 0 asks for the first free number
FreeBlockNumber(bndl) ==
  CHOOSE n \in 2..(Len(bndl) + 2) :
    /\ \A i \in 1..Len(bndl) : bndl[i].num # n
    /\ \A m \in 2..(n - 1) : \E i \in 1..Len(bndl) : bndl[i].num = m

AddExtensionBlock(bndl, ty, data) ==
  << [type |-> ty, num |-> FreeBlockNumber(bndl), data |-> data] >> \o bndl

\* forwardingAsync steps 4.1 and 4.2 on the local copy
RemovePreviousNode(bndl) ==
  IF HasExtensionBlock(bndl, ExtBlockTypePreviousNodeBlock)
    THEN RemoveExtensionBlockByBlockNumber(
           bndl, ExtensionBlock(bndl, ExtBlockTypePreviousNodeBlock).num)
    ELSE bndl

PreviousNodes(bndl) ==
  {bndl[i].data : i \in {j \in 1..Len(bndl) : bndl[j].type = ExtBlockTypePreviousNodeBlock}}

\* ------------------------------------------------ descriptor operations
\* an AddConstraint that flips the constraint
AddConstraintToggles(cs, c) == IF c \in cs THEN cs \ {c} ELSE cs \cup {c}

AddConstraint(cs, c) == cs \cup {c}
RemoveConstraint(cs, c) == cs \ {c}
ResetConstraints(cs) == {}
AddAlreadySent(as, eid) == as \cup {eid}

\* routing: an ordered list of distinct senders, possibly empty
RECURSIVE SetToSeq(_)
SetToSeq(S) ==
  IF S = {} THEN << >>
  ELSE LET m == CHOOSE x \in S : \A y \in S : x <= y
       IN << m >> \o SetToSeq(S \ {m})

SelectPeersForForwarding == {SetToSeq(S) : S \in SUBSET Peers}

\* store.GetDispatchable: the descriptors carrying "dispatch pending"
GetDispatchable(cons) == SetToSeq({b \in Bundles : DispatchPending \in cons[b]})

\* The constraint sets bundles are stored with: received and waiting for
\* dispatch, or a fragment that is also, or only, waiting for reassembly.
InitialConstraints ==
  {{DispatchPending}, {DispatchPending, ReassemblyPending}, {ReassemblyPending}}

VARIABLES
  \* ---- forwarding engine
  constraints,      \* descriptor: constraint set of each bundle
  alreadySent,      \* descriptor: endpoint ids already sent to
  swPc,             \* DispatchPending invocations: position
  pc,               \* forwardingAsync goroutines: position
  desc,             \* ... bundleDescriptor argument (0: not launched)
  forwardToPeers,   \* ... result of the routing query
  bundle,           \* ... forwardingAsync's loaded copy
  fbBundle,         \* ... forwardBundle's loaded copy
  sendSt,           \* ... per peer goroutine of the fan-out
  successfulSends, sentAtLeastOnce, wg, recI,
  exit,             \* ... the return statement taken
  trace,            \* ... collaborator calls made by the goroutine itself
  sendCalls,        \* ... the senders its fan-out has called Send on
  delivered,        \* per bundle: endpoint ids whose Send has returned nil
  \* ---- MTCPClient
  activated,        \* Activate: "new", "active" or "failed" (dial error)
  conn,             \* client.conn: "nil", "open", "closed"
  stopSyn, stopAck, \* the channels: "nil", "open", "closed"
  mutex,            \* client.mutex: its holder, or NoOne
  mpc,              \* position of the handler, of each Send and of each Close caller
  sendErr,          \* Send's named result err
  panicking,        \* a panic is unwinding the goroutine
  closeCalled,      \* this call of Send has called client.Close()
  notifications,    \* NotifyConnect / NotifyDisconnect calls, in order
  crashed           \* a panic has left a goroutine unrecovered

engineVars == << constraints, alreadySent, swPc, pc, desc, forwardToPeers, bundle,
                 fbBundle, sendSt, successfulSends, sentAtLeastOnce, wg, recI,
                 exit, trace, sendCalls, delivered >>

mtcpVars == << activated, conn, stopSyn, stopAck, mutex, mpc, sendErr, panicking,
               closeCalled, notifications, crashed >>

vars == << engineVars, mtcpVars >>

EngineInit ==
  /\ constraints \in [Bundles -> InitialConstraints]
  /\ \A b \in Bundles : b % 2 = 1 => constraints[b] = {DispatchPending}
  /\ alreadySent = [b \in Bundles |-> {}]
  /\ swPc = [s \in Sweeps |-> "idle"]
  /\ pc = [t \in Tasks |-> "idle"]
  /\ desc = [t \in Tasks |-> 0]
  /\ forwardToPeers = [t \in Tasks |-> << >>]
  /\ bundle = [t \in Tasks |-> NoBundle]
  /\ fbBundle = [t \in Tasks |-> NoBundle]
  /\ sendSt = [t \in Tasks |-> << >>]
  /\ successfulSends = [t \in Tasks |-> << >>]
  /\ sentAtLeastOnce = [t \in Tasks |-> FALSE]
  /\ wg = [t \in Tasks |-> 0]
  /\ recI = [t \in Tasks |-> 0]
  /\ exit = [t \in Tasks |-> "none"]
  /\ trace = [t \in Tasks |-> << >>]
  /\ sendCalls = [t \in Tasks |-> {}]
  /\ delivered = [b \in Bundles |-> {}]

\* NewMTCPClient: no connection, no channels, nothing running
MTCPInit ==
  /\ activated = "new"
  /\ conn = "nil"
  /\ stopSyn = "nil"
  /\ stopAck = "nil"
  /\ mutex = NoOne
  /\ mpc = [p \in MProcs |-> IF p = Handler THEN "off" ELSE "idle"]
  /\ sendErr = [p \in Senders |-> "nil"]
  /\ panicking = [p \in MProcs |-> FALSE]
  /\ closeCalled = [p \in Senders |-> FALSE]
  /\ notifications = << >>
  /\ crashed = FALSE

Init == EngineInit /\ MTCPInit

Call(t, name, arg, ok) == trace' = [trace EXCEPT ![t] = Append(@, << name, arg, ok >>)]

\* what a step of forwardingAsync's own goroutine leaves alone besides its
\* position, its trace and the variables it names
fanout == << sendSt, successfulSends, sentAtLeastOnce, wg, recI, sendCalls, delivered >>

\* ------------------------------------------------------- DispatchPending
\* the goroutine slots the launches of one sweep take: the first unused ones,
\* in the order of bndls
FreeTasks == {t \in Tasks : pc[t] = "idle"}
Slot(k) == CHOOSE t \in FreeTasks : Cardinality({u \in FreeTasks : u < t}) = k - 1

\* BundleForwarding: go forwardingAsync(bundleDescriptor)
BundleForwarding(got) ==
  LET new == {Slot(k) : k \in 1..Len(got)}
      idx(t) == CHOOSE k \in 1..Len(got) : Slot(k) = t
  IN /\ pc' = [t \in Tasks |-> IF t \in new THEN "step1_add" ELSE pc[t]]
     /\ desc' = [t \in Tasks |-> IF t \in new THEN got[idx(t)] ELSE desc[t]]

\* a sweep that launches a goroutine for the first descriptor only
LaunchesFirstOnly(ok, got) == IF ok /\ Len(got) > 0 THEN << got[1] >> ELSE << >>

\* the descriptors a sweep launches a goroutine for
Launches(ok, got) == IF ok THEN got ELSE << >>

\* DispatchPending: store.GetDispatchable(), return on its error, else launch one
\* goroutine per descriptor and return.  Invocations are numbered in the order
\* they query the store.
DispatchPendingCall(s) ==
  /\ swPc[s] = "idle"
  /\ \A r \in Sweeps : r < s => swPc[r] # "idle"
  /\ \E ok \in BOOLEAN :
       LET bndls == Launches(ok, GetDispatchable(constraints))
       IN /\ Len(bndls) <= Cardinality(FreeTasks)
          /\ swPc' = [swPc EXCEPT ![s] = IF ok THEN "returned" ELSE "failed"]
          /\ BundleForwarding(bndls)
  /\ UNCHANGED << constraints, alreadySent, forwardToPeers, bundle, fbBundle, fanout,
                  exit, trace, mtcpVars >>

\* ------------------------------------------------------- forwardingAsync
Return(t, how) ==
  /\ pc' = [pc EXCEPT ![t] = "done"]
  /\ exit' = [exit EXCEPT ![t] = how]

Goto(t, where) ==
  /\ pc' = [pc EXCEPT ![t] = where]
  /\ UNCHANGED exit

\* a forwardingAsync that logs the error of AddConstraint and goes on
Step1AddThenGoesOn(t, ok) == Goto(t, "step1_remove")

\* Step 1, first half: AddConstraint(ForwardPending); return on error
Step1AddThen(t, ok) == IF ok THEN Goto(t, "step1_remove") ELSE Return(t, "addErr")

forwardingAsyncStep1Add(t) ==
  /\ pc[t] = "step1_add"
  /\ \E ok \in BOOLEAN :
       /\ constraints' = [constraints EXCEPT ![desc[t]] =
                            IF ok THEN AddConstraint(@, ForwardPending) ELSE @]
       /\ Call(t, "AddConstraint", ForwardPending, ok)
       /\ Step1AddThen(t, ok)
  /\ UNCHANGED << alreadySent, swPc, desc, forwardToPeers, bundle, fbBundle, fanout,
                  mtcpVars >>

\* Step 1, second half: RemoveConstraint(DispatchPending); return on error
Step1RemoveThen(t, ok) == IF ok THEN Goto(t, "step2") ELSE Return(t, "rmDpErr")

forwardingAsyncStep1Remove(t) ==
  /\ pc[t] = "step1_remove"
  /\ \E ok \in BOOLEAN :
       /\ constraints' = [constraints EXCEPT ![desc[t]] =
                            IF ok THEN RemoveConstraint(@, DispatchPending) ELSE @]
       /\ Call(t, "RemoveConstraint", DispatchPending, ok)
       /\ Step1RemoveThen(t, ok)
  /\ UNCHANGED << alreadySent, swPc, desc, forwardToPeers, bundle, fbBundle, fanout,
                  mtcpVars >>

\* a forwardingAsync without the branch of step 3
ContraindicatedNever(peers) == FALSE

\* Steps 2 and 3: the routing query, and the branch on len(forwardToPeers) == 0
Contraindicated(peers) == Len(peers) = 0

forwardingAsyncStep2(t) ==
  /\ pc[t] = "step2"
  /\ \E peers \in SelectPeersForForwarding :
       /\ forwardToPeers' = [forwardToPeers EXCEPT ![t] = peers]
       /\ Call(t, "SelectPeersForForwarding", desc[t], TRUE)
       /\ Goto(t, IF Contraindicated(peers) THEN "step3" ELSE "step4")
  /\ UNCHANGED << constraints, alreadySent, swPc, desc, bundle, fbBundle, fanout,
                  mtcpVars >>

\* bundleContraindicated: ResetConstraints, its error only logged
bundleContraindicated(t) ==
  /\ pc[t] = "step3"
  /\ \E ok \in BOOLEAN :
       /\ constraints' = [constraints EXCEPT ![desc[t]] =
                            IF ok THEN ResetConstraints(@) ELSE @]
       /\ Call(t, "ResetConstraints", desc[t], ok)
       /\ Return(t, IF ok THEN "contraindicated" ELSE "resetErr")
  /\ UNCHANGED << alreadySent, swPc, desc, forwardToPeers, bundle, fbBundle, fanout,
                  mtcpVars >>

\* a forwardingAsync that cleans up after a failed load by going to step 6
Step4LoadThenStep6(t, ok) == IF ok THEN Goto(t, "step4_1") ELSE Goto(t, "step6")

\* Step 4: bundleDescriptor.Load(); return on error
Step4LoadThen(t, ok) == IF ok THEN Goto(t, "step4_1") ELSE Return(t, "loadErr")

forwardingAsyncStep4Load(t) ==
  /\ pc[t] = "step4"
  /\ \E ok \in BOOLEAN :
       /\ bundle' = [bundle EXCEPT ![t] = IF ok THEN StoredBundle(desc[t]) ELSE @]
       /\ Call(t, "Load", desc[t], ok)
       /\ Step4LoadThen(t, ok)
  /\ UNCHANGED << constraints, alreadySent, swPc, desc, forwardToPeers, fbBundle,
                  fanout, mtcpVars >>

\* Steps 4.1 and 4.2 on the local variable bundle: the block number is free
\* after the removal, so AddExtensionBlock adds the block
forwardingAsyncStep4PrevNode(t) ==
  /\ pc[t] = "step4_1"
  /\ bundle' = [bundle EXCEPT ![t] =
                  AddExtensionBlock(RemovePreviousNode(@),
                                    ExtBlockTypePreviousNodeBlock, NodeID)]
  /\ Goto(t, "fb_load")
  /\ UNCHANGED << constraints, alreadySent, swPc, desc, forwardToPeers, fbBundle,
                  fanout, trace, mtcpVars >>

\* ---------------------------------------------------------- forwardBundle
\* forwardBundle(bundleDescriptor, forwardToPeers): the transmitter is handed the
\* descriptor, and what it sends is what its own Load returns
TransmittedBundle(t) == StoredBundle(desc[t])

\* a forwardingAsync that removes "forward pending" only after a successful send
forwardBundleReturnIfSent(t) ==
  IF sentAtLeastOnce[t] THEN Goto(t, "step6") ELSE Return(t, "forwarded")

\* forwardBundle returns to forwardingAsync, which goes on with step 6
forwardBundleReturn(t) == Goto(t, "step6")

forwardBundleLoad(t) ==
  /\ pc[t] = "fb_load"
  /\ \E ok \in BOOLEAN :
       /\ fbBundle' = [fbBundle EXCEPT ![t] = IF ok THEN TransmittedBundle(t) ELSE @]
       /\ Call(t, "Load", desc[t], ok)
       /\ IF ok THEN Goto(t, "fb_spawn") ELSE forwardBundleReturn(t)
  /\ UNCHANGED << constraints, alreadySent, swPc, desc, forwardToPeers, bundle,
                  fanout, mtcpVars >>

\* successfulSends := make([]bool, len(peers)); wg.Add(len(peers)); go func ...
forwardBundleSpawn(t) ==
  /\ pc[t] = "fb_spawn"
  /\ successfulSends' = [successfulSends EXCEPT ![t] =
                           [i \in 1..Len(forwardToPeers[t]) |-> FALSE]]
  /\ sendSt' = [sendSt EXCEPT ![t] = [i \in 1..Len(forwardToPeers[t]) |-> "ready"]]
  /\ wg' = [wg EXCEPT ![t] = Len(forwardToPeers[t])]
  /\ Goto(t, "fb_wait")
  /\ UNCHANGED << constraints, alreadySent, swPc, desc, forwardToPeers, bundle,
                  fbBundle, sentAtLeastOnce, recI, trace, sendCalls, delivered,
                  mtcpVars >>

\* the goroutine of peer i calls peer.Send(bundle)
SendCall(t, i) ==
  /\ pc[t] = "fb_wait"
  /\ i \in 1..Len(sendSt[t])
  /\ sendSt[t][i] = "ready"
  /\ sendSt' = [sendSt EXCEPT ![t][i] = "sending"]
  /\ sendCalls' = [sendCalls EXCEPT ![t] = @ \cup {forwardToPeers[t][i]}]
  /\ UNCHANGED << constraints, alreadySent, swPc, pc, desc, forwardToPeers, bundle,
                  fbBundle, successfulSends, sentAtLeastOnce, wg, recI, exit, trace,
                  delivered, mtcpVars >>

\* if err := peer.Send(bundle); err != nil { ... } else { ... }
SendSucceeded(err) == err = "nil"

\* peer.Send returns; successfulSends[i] = true; once.Do; wg.Done()
SendReturn(t, i) ==
  /\ pc[t] = "fb_wait"
  /\ i \in 1..Len(sendSt[t])
  /\ sendSt[t][i] = "sending"
  /\ \E err \in {"nil", "error"} :
       /\ sendSt' = [sendSt EXCEPT ![t][i] = err]
       /\ successfulSends' = [successfulSends EXCEPT ![t][i] =
                                IF SendSucceeded(err) THEN TRUE ELSE @]
       /\ sentAtLeastOnce' = [sentAtLeastOnce EXCEPT ![t] =
                                IF SendSucceeded(err) THEN TRUE ELSE @]
       /\ delivered' = [delivered EXCEPT ![desc[t]] =
                          IF err = "nil"
                            THEN @ \cup {GetPeerEndpointID(forwardToPeers[t][i])}
                            ELSE @]
  /\ wg' = [wg EXCEPT ![t] = @ - 1]
  /\ UNCHANGED << constraints, alreadySent, swPc, pc, desc, forwardToPeers, bundle,
                  fbBundle, recI, exit, trace, sendCalls, mtcpVars >>

\* peer.Send never returns (the engine sets no deadline on it)
SendHang(t, i) ==
  /\ pc[t] = "fb_wait"
  /\ i \in 1..Len(sendSt[t])
  /\ sendSt[t][i] = "sending"
  /\ sendSt' = [sendSt EXCEPT ![t][i] = "hung"]
  /\ UNCHANGED << constraints, alreadySent, swPc, pc, desc, forwardToPeers, bundle,
                  fbBundle, successfulSends, sentAtLeastOnce, wg, recI, exit, trace,
                  sendCalls, delivered, mtcpVars >>

\* a Wait that returns as soon as one goroutine of the fan-out is done
WaitReturnsAfterFirst(t) == wg[t] < Len(forwardToPeers[t])

\* wg.Wait() returns when every wg.Done() has been called
WaitReturns(t) == wg[t] = 0

\* wg.Wait()
forwardBundleWait(t) ==
  /\ pc[t] = "fb_wait"
  /\ WaitReturns(t)
  /\ recI' = [recI EXCEPT ![t] = 1]
  /\ IF Len(successfulSends[t]) = 0 THEN forwardBundleReturn(t) ELSE Goto(t, "fb_record")
  /\ UNCHANGED << constraints, alreadySent, swPc, desc, forwardToPeers, bundle,
                  fbBundle, sendSt, successfulSends, sentAtLeastOnce, wg, trace,
                  sendCalls, delivered, mtcpVars >>

\* a recording loop that takes every peer of the fan-out
RecordedAlways(t, i) == TRUE

\* a recording loop that breaks at the first failed peer
RecordedUntilFailure(t, i) == \A j \in 1..i : successfulSends[t][j]

\* Step 2 of forwardBundle: for i, success := range successfulSends { if success
Recorded(t, i) == successfulSends[t][i]

forwardBundleRecord(t) ==
  /\ pc[t] = "fb_record"
  /\ LET i == recI[t]
         eid == GetPeerEndpointID(forwardToPeers[t][i])
     IN /\ IF Recorded(t, i)
             THEN /\ alreadySent' = [alreadySent EXCEPT ![desc[t]] = AddAlreadySent(@, eid)]
                  /\ Call(t, "AddAlreadySent", eid, TRUE)
             ELSE UNCHANGED << alreadySent, trace >>
        /\ recI' = [recI EXCEPT ![t] = i + 1]
        /\ IF i = Len(successfulSends[t])
             THEN forwardBundleReturn(t)
             ELSE Goto(t, "fb_record")
  /\ UNCHANGED << constraints, swPc, desc, forwardToPeers, bundle, fbBundle, sendSt,
                  successfulSends, sentAtLeastOnce, wg, sendCalls, delivered,
                  mtcpVars >>

\* Step 6: RemoveConstraint(ForwardPending), whatever forwardBundle did
forwardingAsyncStep6(t) ==
  /\ pc[t] = "step6"
  /\ \E ok \in BOOLEAN :
       /\ constraints' = [constraints EXCEPT ![desc[t]] =
                            IF ok THEN RemoveConstraint(@, ForwardPending) ELSE @]
       /\ Call(t, "RemoveConstraint", ForwardPending, ok)
       /\ Return(t, IF ok THEN "forwarded" ELSE "rmFpErr")
  /\ UNCHANGED << alreadySent, swPc, desc, forwardToPeers, bundle, fbBundle, fanout,
                  mtcpVars >>

forwardingAsync(t) ==
  \/ forwardingAsyncStep1Add(t)
  \/ forwardingAsyncStep1Remove(t)
  \/ forwardingAsyncStep2(t)
  \/ bundleContraindicated(t)
  \/ forwardingAsyncStep4Load(t)
  \/ forwardingAsyncStep4PrevNode(t)
  \/ forwardingAsyncStep6(t)

forwardBundle(t) ==
  \/ forwardBundleLoad(t)
  \/ forwardBundleSpawn(t)
  \/ \E i \in 1..NPeers : SendCall(t, i) \/ SendReturn(t, i) \/ SendHang(t, i)
  \/ forwardBundleWait(t)
  \/ forwardBundleRecord(t)

Next ==
  \/ \E s \in Sweeps : DispatchPendingCall(s)
  \/ \E t \in Tasks : forwardingAsync(t) \/ forwardBundle(t)

Spec == Init /\ [][Next]_vars

\* ================================================================ MTCPClient
At(p, where) == ~crashed /\ mpc[p] = where
Jump(p, where) == mpc' = [mpc EXCEPT ![p] = where]

\* a write on the connection: it fails on a closed connection and may fail on an
\* open one
WriteResults == IF conn = "open" THEN {"ok", "err"} ELSE {"err"}

\* a handler that goes to its loop without introducing the peer
HandlerEntryAtLoop == "select"

\* go client.handler(): the handler starts at its first statement, NotifyConnect
HandlerEntry == "start"

\* Activate: dial, make the channels, start the handler
Activate ==
  /\ ~crashed /\ activated = "new"
  /\ \E dialed \in BOOLEAN :
       IF dialed
         THEN /\ activated' = "active"
              /\ stopSyn' = "open" /\ stopAck' = "open" /\ conn' = "open"
              /\ Jump(Handler, HandlerEntry)
         ELSE /\ activated' = "failed"
              /\ UNCHANGED << stopSyn, stopAck, conn, mpc >>
  /\ UNCHANGED << mutex, sendErr, panicking, closeCalled, notifications, crashed,
                  engineVars >>

\* handler: NotifyConnect(client.peer), then the loop
handlerNotifyConnect ==
  /\ At(Handler, "start")
  /\ notifications' = Append(notifications, "connect")
  /\ Jump(Handler, "select")
  /\ UNCHANGED << activated, conn, stopSyn, stopAck, mutex, sendErr, panicking,
                  closeCalled, crashed, engineVars >>

\* handler: case <-client.stopSyn
handlerStop ==
  /\ At(Handler, "select")
  /\ stopSyn = "closed"
  /\ conn' = "closed"
  /\ stopAck' = "closed"
  /\ Jump(Handler, "stopped")
  /\ UNCHANGED << activated, stopSyn, mutex, sendErr, panicking, closeCalled,
                  notifications, crashed, engineVars >>

\* handler: case <-ticker.C, up to client.mutex.Lock()
handlerTick ==
  /\ At(Handler, "select")
  /\ Jump(Handler, "keepalive_lock")
  /\ UNCHANGED << activated, conn, stopSyn, stopAck, mutex, sendErr, panicking,
                  closeCalled, notifications, crashed, engineVars >>

\* a Lock that does not wait for the holder
LockWithoutWaiting(p) == mutex' = p

\* client.mutex.Lock(): blocks while the mutex is held
Lock(p) == mutex = NoOne /\ mutex' = p

handlerLock ==
  /\ At(Handler, "keepalive_lock")
  /\ Lock(Handler)
  /\ Jump(Handler, "keepalive_write")
  /\ UNCHANGED << activated, conn, stopSyn, stopAck, sendErr, panicking, closeCalled,
                  notifications, crashed, engineVars >>

\* what the handler does with the result of its keepalive write
KeepaliveThen(res) == IF res = "ok" THEN "select" ELSE "close_syn"

\* handler: WriteByteStringLen(0, client.conn); Unlock; if err != nil: Close()
handlerKeepalive ==
  /\ At(Handler, "keepalive_write")
  /\ mutex' = NoOne
  /\ \E res \in WriteResults : Jump(Handler, KeepaliveThen(res))
  /\ UNCHANGED << activated, conn, stopSyn, stopAck, sendErr, panicking, closeCalled,
                  notifications, crashed, engineVars >>

\* Send is called on an activated client
SendCalled(p) ==
  /\ ~crashed /\ p \in Senders
  /\ mpc[p] \in {"idle", "returned"}
  /\ activated = "active"
  /\ sendErr' = [sendErr EXCEPT ![p] = "nil"]
  /\ closeCalled' = [closeCalled EXCEPT ![p] = FALSE]
  /\ Jump(p, "lock")
  /\ UNCHANGED << activated, conn, stopSyn, stopAck, mutex, panicking,
                  notifications, crashed, engineVars >>

\* client.mutex.Lock()
SendLock(p) ==
  /\ p \in Senders /\ At(p, "lock")
  /\ Lock(p)
  /\ Jump(p, "marshal")
  /\ UNCHANGED << activated, conn, stopSyn, stopAck, sendErr, panicking, closeCalled,
                  notifications, crashed, engineVars >>

\* cboring.Marshal(&bndl, buff): done, an error, or a panic
SendMarshal(p) ==
  /\ p \in Senders /\ At(p, "marshal")
  /\ \E res \in {"ok", "err", "panic"} :
       /\ sendErr' = [sendErr EXCEPT ![p] = IF res = "err" THEN "cborErr" ELSE @]
       /\ panicking' = [panicking EXCEPT ![p] = (res = "panic")]
       /\ Jump(p, IF res = "ok" THEN "write_len" ELSE "unlock")
  /\ UNCHANGED << activated, conn, stopSyn, stopAck, mutex, closeCalled,
                  notifications, crashed, engineVars >>

\* one of the four writes of Send, in their order; an error is stored in err and
\* Send returns
SendWrite(p, at, errName, next) ==
  /\ p \in Senders /\ At(p, at)
  /\ \E res \in WriteResults :
       /\ sendErr' = [sendErr EXCEPT ![p] = IF res = "ok" THEN @ ELSE errName]
       /\ Jump(p, IF res = "ok" THEN next ELSE "unlock")
  /\ UNCHANGED << activated, conn, stopSyn, stopAck, mutex, panicking, closeCalled,
                  notifications, crashed, engineVars >>

SendWriteLen(p) == SendWrite(p, "write_len", "bsErr", "write_payload")
SendWritePayload(p) == SendWrite(p, "write_payload", "plErr", "flush")
SendFlush(p) == SendWrite(p, "flush", "flushErr", "probe")
SendProbe(p) == SendWrite(p, "probe", "probeErr", "unlock")

\* the deferred calls of Send run in the reverse order of their defer statements:
\* Unlock first, then the call of Close, then recover
SendUnlock(p) ==
  /\ p \in Senders /\ At(p, "unlock")
  /\ mutex' = NoOne
  /\ Jump(p, "defer_close")
  /\ UNCHANGED << activated, conn, stopSyn, stopAck, sendErr, panicking, closeCalled,
                  notifications, crashed, engineVars >>

\* defer func() { if err != nil { client.Close() } }()
ClosesAfter(e) == e # "nil"

SendDeferClose(p) ==
  /\ p \in Senders /\ At(p, "defer_close")
  /\ closeCalled' = [closeCalled EXCEPT ![p] = ClosesAfter(sendErr[p])]
  /\ Jump(p, IF ClosesAfter(sendErr[p]) THEN "close_syn" ELSE "recover")
  /\ UNCHANGED << activated, conn, stopSyn, stopAck, mutex, sendErr, panicking,
                  notifications, crashed, engineVars >>

\* defer func() { if r := recover(); r != nil { err = ... } }()
SendRecover(p) ==
  /\ p \in Senders /\ At(p, "recover")
  /\ sendErr' = [sendErr EXCEPT ![p] = IF panicking[p] THEN "recovered" ELSE @]
  /\ panicking' = [panicking EXCEPT ![p] = FALSE]
  /\ Jump(p, "returned")
  /\ UNCHANGED << activated, conn, stopSyn, stopAck, mutex, closeCalled,
                  notifications, crashed, engineVars >>

\* Close is called from outside on an activated client
CloseCalled(p) ==
  /\ p \in Closers /\ At(p, "idle")
  /\ activated = "active"
  /\ Jump(p, "close_syn")
  /\ UNCHANGED << activated, conn, stopSyn, stopAck, mutex, sendErr, panicking,
                  closeCalled, notifications, crashed, engineVars >>

\* where a goroutine goes on when Close has returned, and where a panic in Close
\* takes it: Send recovers, the others have no recover
AfterClose(p) ==
  IF p \in Senders THEN "recover" ELSE IF p = Handler THEN "select" ELSE "returned"
AfterPanic(p) == IF p \in Senders THEN "recover" ELSE "panicked"

\* Close: close(client.stopSyn); closing a closed channel panics
CloseSyn(p) ==
  /\ At(p, "close_syn")
  /\ IF stopSyn = "open"
       THEN /\ stopSyn' = "closed"
            /\ Jump(p, "close_ack")
            /\ UNCHANGED << panicking, crashed >>
       ELSE /\ panicking' = [panicking EXCEPT ![p] = TRUE]
            /\ Jump(p, AfterPanic(p))
            /\ crashed' = (p = Handler)
            /\ UNCHANGED stopSyn
  /\ UNCHANGED << activated, conn, stopAck, mutex, sendErr, closeCalled, notifications,
                  engineVars >>

\* a receive on client.stopAck goes through once the channel has been closed
AcknowledgedOnStopSyn == stopSyn = "closed"

Acknowledged == stopAck = "closed"

\* Close: <-client.stopAck
CloseAck(p) ==
  /\ At(p, "close_ack")
  /\ Acknowledged
  /\ Jump(p, "close_notify")
  /\ UNCHANGED << activated, conn, stopSyn, stopAck, mutex, sendErr, panicking,
                  closeCalled, notifications, crashed, engineVars >>

\* Close: NotifyDisconnect(client); return nil
CloseNotify(p) ==
  /\ At(p, "close_notify")
  /\ notifications' = Append(notifications, "disconnect")
  /\ Jump(p, AfterClose(p))
  /\ UNCHANGED << activated, conn, stopSyn, stopAck, mutex, sendErr, panicking,
                  closeCalled, crashed, engineVars >>

handler ==
  \/ handlerNotifyConnect
  \/ handlerStop
  \/ handlerTick
  \/ handlerLock
  \/ handlerKeepalive

Send(p) ==
  \/ SendCalled(p)
  \/ SendLock(p)
  \/ SendMarshal(p)
  \/ SendWriteLen(p)
  \/ SendWritePayload(p)
  \/ SendFlush(p)
  \/ SendProbe(p)
  \/ SendUnlock(p)
  \/ SendDeferClose(p)
  \/ SendRecover(p)

Close(p) == CloseCalled(p) \/ CloseSyn(p) \/ CloseAck(p) \/ CloseNotify(p)

MTCPNext ==
  \/ Activate
  \/ handler
  \/ \E p \in MProcs : Send(p) \/ Close(p)

MTCPSpec == Init /\ [][MTCPNext]_vars

\* a goroutine that can take a step takes one; a select whose stop case stays
\* ready takes it in the end. Calls from outside (Activate, Send, Close) are not
\* forced.
SendSteps(p) ==
  \/ SendLock(p)
  \/ SendMarshal(p)
  \/ SendWriteLen(p)
  \/ SendWritePayload(p)
  \/ SendFlush(p)
  \/ SendProbe(p)
  \/ SendUnlock(p)
  \/ SendDeferClose(p)
  \/ SendRecover(p)

CloseSteps(p) == CloseSyn(p) \/ CloseAck(p) \/ CloseNotify(p)

MTCPFairSpec ==
  /\ MTCPSpec
  /\ WF_vars(handler)
  /\ SF_vars(handlerStop)
  /\ \A p \in MProcs : WF_vars(SendSteps(p)) /\ WF_vars(CloseSteps(p))

\* =================================================================== claims
Last(sq) == sq[Len(sq)]
Completes(t) == pc[t] # "done" /\ pc'[t] = "done"
Active(t) == pc[t] \notin {"idle", "done"}

\* the calls of forwardingAsync come in a fixed order: AddConstraint,
\* RemoveConstraint, SelectPeersForForwarding, Load
Step1Failed(t) == \E k \in {1, 2} : k <= Len(trace[t]) /\ trace[t][k][3] = FALSE
DispatchPendingCleared(t) == Len(trace[t]) >= 2 /\ trace[t][2][3]
Routed(t) == Len(trace[t]) >= 3
Step4LoadFailed(t) == Len(trace[t]) >= 4 /\ trace[t][4][3] = FALSE
Made(t, name) == \E k \in 1..Len(trace[t]) : trace[t][k][1] = name
Failed(t, name) ==
  \E k \in 1..Len(trace[t]) : trace[t][k][1] = name /\ trace[t][k][3] = FALSE
SoleAttempt(t) == \A u \in Tasks : u # t => desc[u] # desc[t]

\* C1 as stated: whenever forwardingAsync completes for a bundle whose routing
\* query returned a non-empty peer list, "forward pending" is not in the
\* constraint set, whatever the sends, the loads and the storage calls returned.
C1_Original ==
  [][\A t \in Tasks :
       (Completes(t) /\ Routed(t)' /\ forwardToPeers'[t] # << >>)
         => ForwardPending \notin constraints'[desc[t]]]_vars

\* C1 amended: whenever forwardingAsync completes for a bundle whose routing query
\* returned a non-empty peer list, "forward pending" is not in the constraint
\* set, whatever each send and the transmitter's own load returned, unless the
\* load of step 4 or the final RemoveConstraint(forward pending) failed.
C1_ForwardPendingRemoved ==
  [][\A t \in Tasks :
       (/\ Completes(t)
        /\ Routed(t)' /\ forwardToPeers'[t] # << >>
        /\ ~Step4LoadFailed(t)'
        /\ Last(trace'[t]) # << "RemoveConstraint", ForwardPending, FALSE >>)
         => ForwardPending \notin constraints'[desc[t]]]_vars

\* a completed attempt over two or more peers, one send succeeded and one failed
C1_Witness ==
  \E t \in Tasks :
    /\ pc[t] = "done" /\ exit[t] = "forwarded"
    /\ \E i, j \in DOMAIN sendSt[t] : sendSt[t][i] = "nil" /\ sendSt[t][j] = "error"
    /\ ForwardPending \notin constraints[desc[t]]

\* C2 as stated: whenever forwardingAsync completes for a bundle whose routing
\* query returned no peer, the constraint set is empty, the attempt has recorded
\* nothing in the already-sent set, has not loaded the bundle and has called no
\* Send.
C2_Original ==
  [][\A t \in Tasks :
       (Completes(t) /\ Routed(t)' /\ forwardToPeers'[t] = << >>)
         => /\ constraints'[desc[t]] = {}
            /\ alreadySent'[desc[t]] = alreadySent[desc[t]]
            /\ ~Made(t, "AddAlreadySent")'
            /\ ~Made(t, "Load")'
            /\ sendCalls'[t] = {}]_vars

\* C2 amended: the same, provided ResetConstraints returned no error; when it
\* returns an error the attempt ends with the constraint set as step 1 left it.
C2_ContraindicatedReset ==
  [][\A t \in Tasks :
       (/\ Completes(t)
        /\ Routed(t)' /\ forwardToPeers'[t] = << >>
        /\ ~Failed(t, "ResetConstraints")')
         => /\ constraints'[desc[t]] = {}
            /\ alreadySent'[desc[t]] = alreadySent[desc[t]]
            /\ ~Made(t, "AddAlreadySent")'
            /\ ~Made(t, "Load")'
            /\ sendCalls'[t] = {}]_vars

\* a contraindicated bundle that was also waiting for reassembly, now reset
C2_Witness ==
  \E t \in Tasks :
    /\ exit[t] = "contraindicated"
    /\ desc[t] % 2 = 0
    /\ constraints[desc[t]] = {}

\* C3: the already-sent set of a bundle only grows, and an endpoint id is added
\* to it only after a Send to that peer for that bundle has returned nil.
C3_AlreadySentOnlySuccesses ==
  [][\A b \in Bundles :
       /\ alreadySent[b] \subseteq alreadySent'[b]
       /\ (alreadySent'[b] \ alreadySent[b]) \subseteq delivered[b]
       /\ alreadySent'[b] \subseteq delivered'[b]]_vars

\* a fan-out past its recording, with a failed peer left out and another recorded
C3_Witness ==
  \E t \in Tasks :
    /\ pc[t] \in {"step6", "done"}
    /\ \E i, j \in DOMAIN sendSt[t] :
         /\ sendSt[t][i] = "error"
         /\ GetPeerEndpointID(forwardToPeers[t][i]) \notin alreadySent[desc[t]]
         /\ sendSt[t][j] = "nil"
         /\ GetPeerEndpointID(forwardToPeers[t][j]) \in alreadySent[desc[t]]

\* the fan-out of t has sent and its transmitter has returned
FanoutOver(t) == pc[t] \in {"step6", "done"} /\ sendSt[t] # << >>
\* the fan-out of t can take no further step: every Send has returned or will
\* never return, and one will never return
FanoutStuck(t) ==
  /\ pc[t] = "fb_wait"
  /\ \A i \in DOMAIN sendSt[t] : sendSt[t][i] \in {"nil", "error", "hung"}
  /\ \E k \in DOMAIN sendSt[t] : sendSt[t][k] = "hung"
SuccessesRecorded(t) ==
  \A i \in DOMAIN sendSt[t] :
    sendSt[t][i] = "nil" => GetPeerEndpointID(forwardToPeers[t][i]) \in alreadySent[desc[t]]

\* C4 as stated: when the fan-out has come to its end, with a peer k that failed
\* by returning an error or by never returning, every peer whose Send succeeded
\* is in the already-sent set.
C4_Original ==
  \A t \in Tasks : (FanoutOver(t) \/ FanoutStuck(t)) => SuccessesRecorded(t)

\* C4 amended: when the transmitter has returned, every peer whose Send succeeded
\* is in the already-sent set, wherever the peers that returned an error stand in
\* the list; a Send that never returns keeps the transmitter from returning.
C4_FanoutIsolation ==
  \A t \in Tasks :
    /\ FanoutOver(t) => SuccessesRecorded(t)
    /\ FanoutStuck(t) => ~Made(t, "AddAlreadySent")

\* a fan-out over three peers or more, the middle one failed, the others recorded
C4_Witness ==
  \E t \in Tasks :
    /\ FanoutOver(t)
    /\ Len(sendSt[t]) >= 3
    /\ sendSt[t][2] = "error"
    /\ \A i \in DOMAIN sendSt[t] :
         i # 2 => /\ sendSt[t][i] = "nil"
                  /\ GetPeerEndpointID(forwardToPeers[t][i]) \in alreadySent[desc[t]]

\* C5: the bundle handed to a peer's Send has exactly one previous-node block,
\* and it names this node.
C5_PreviousNodeOnTransmittedCopy ==
  \A t \in Tasks :
    \A i \in DOMAIN sendSt[t] :
      sendSt[t][i] # "ready" => PreviousNodes(fbBundle[t]) = {NodeID}

\* C6: no two forwardingAsync goroutines run for the same bundle at a time.
C6_OneAttemptPerBundle ==
  \A t, u \in Tasks : (t # u /\ Active(t) /\ Active(u)) => desc[t] # desc[u]

\* C7: no two Send calls are in progress on the same sender (here: of the
\* fan-outs of two different bundles).
C7_OneSendPerSender ==
  \A t, u \in Tasks :
    \A i \in DOMAIN sendSt[t], j \in DOMAIN sendSt[u] :
      (/\ desc[t] # desc[u]
       /\ sendSt[t][i] \in {"sending", "hung"}
       /\ sendSt[u][j] \in {"sending", "hung"})
        => forwardToPeers[t][i] # forwardToPeers[u][j]

\* C8: once a storage call of step 1 has failed, the goroutine is done: the failed
\* call is its last call, the step of the failed call changed no constraint set
\* (so "dispatch pending" is as it was), and the goroutine has made no routing
\* query, no load and no Send, and recorded nothing.
C8_Step1Abort ==
  [][\A t \in Tasks :
       Step1Failed(t)' =>
         /\ pc'[t] = "done"
         /\ Len(trace'[t]) <= 2 /\ Last(trace'[t])[3] = FALSE
         /\ ~Made(t, "SelectPeersForForwarding")' /\ ~Made(t, "Load")'
         /\ ~Made(t, "AddAlreadySent")' /\ sendCalls'[t] = {}
         /\ (~Step1Failed(t) => constraints' = constraints /\ alreadySent' = alreadySent)]_vars

\* both aborts have happened, and the bundle whose AddConstraint failed is still
\* dispatchable
C8_Witness ==
  \E t, u \in Tasks :
    /\ exit[t] = "addErr" /\ DispatchPending \in constraints[desc[t]]
    /\ exit[u] = "rmDpErr"

\* C9 as stated: an attempt that cleared "dispatch pending" and then either failed
\* to load the bundle in step 4 or issued no Send although peers were selected
\* ends with "forward pending" in the constraint set (here: when it is the only
\* attempt on the bundle).
C9_Original ==
  \A t \in Tasks :
    (/\ pc[t] = "done"
     /\ SoleAttempt(t)
     /\ DispatchPendingCleared(t)
     /\ \/ Step4LoadFailed(t)
        \/ Routed(t) /\ forwardToPeers[t] # << >> /\ sendCalls[t] = {})
      => ForwardPending \in constraints[desc[t]]

\* C9 amended: an attempt whose load of step 4 fails ends at once; from then on
\* "dispatch pending" is absent, so that no sweep selects the bundle, and
\* "forward pending" stays set when no other attempt on the bundle exists.
C9_StuckAfterLoadFailure ==
  \A t \in Tasks :
    Step4LoadFailed(t) =>
      /\ pc[t] = "done" /\ Len(trace[t]) = 4
      /\ DispatchPending \notin constraints[desc[t]]
      /\ \A k \in 1..Len(GetDispatchable(constraints)) :
           GetDispatchable(constraints)[k] # desc[t]
      /\ SoleAttempt(t) => ForwardPending \in constraints[desc[t]]

\* the stuck bundle after every sweep has run
C9_Witness ==
  \E t \in Tasks :
    /\ Step4LoadFailed(t) /\ SoleAttempt(t)
    /\ ForwardPending \in constraints[desc[t]]
    /\ \A s \in Sweeps : swPc[s] = "returned"
\* C10: every call of Send that has returned an error has called client.Close()
\* before returning, and no panic is left unwinding when Send returns.
C10_SendErrorCloses ==
  \A p \in Senders :
    mpc[p] = "returned" =>
      /\ ~panicking[p]
      /\ sendErr[p] # "nil" => closeCalled[p]
Count(seq, x) == Cardinality({i \in 1..Len(seq) : seq[i] = x})

\* the call of Close made by p has returned normally
CloseReturned(p) ==
  \/ p \in Closers /\ mpc[p] = "returned"
  \/ p \in Senders /\ closeCalled[p] /\ mpc[p] \in {"recover", "returned"}
       /\ sendErr[p] # "recovered" /\ ~panicking[p]

\* C11: a call of Close is past its wait, or has returned, only when the handler
\* has closed the connection and closed stopAck; NotifyDisconnect has been called
\* only after that; it is called at most once for the client, whoever calls Close
\* and in whatever order, and exactly once by the time a call of Close has
\* returned.
C11_ShutdownHandshake ==
  /\ \A p \in MProcs :
       (mpc[p] = "close_notify" \/ CloseReturned(p)) =>
         stopAck = "closed" /\ conn = "closed" /\ mpc[Handler] = "stopped"
  /\ Count(notifications, "disconnect") > 0 => stopAck = "closed" /\ conn = "closed"
  /\ Count(notifications, "disconnect") <= 1
  /\ \A p \in MProcs : CloseReturned(p) => Count(notifications, "disconnect") = 1

\* a Close called from outside and a Close called by a failing Send have both been
\* made; one of them has returned and the disconnect has been notified
C11_Witness ==
  /\ CloseReturned(Closer(1))
  /\ \E p \in Senders : closeCalled[p] /\ mpc[p] = "returned"
  /\ Count(notifications, "disconnect") = 1
\* C12: once the handler's keepalive write has failed and its call of Close has
\* closed stopSyn, the client gets closed: the handler closes the connection and
\* stopAck, and NotifyDisconnect is called.
C12_KeepaliveFailureCloses ==
  (mpc[Handler] = "close_ack") ~>
    (conn = "closed" /\ stopAck = "closed" /\ Count(notifications, "disconnect") = 1)
\* the step is task t's call of the named constraint operation, and it succeeded
CallsOk(t, name, c) == trace'[t] = Append(trace[t], << name, c, TRUE >>)

\* C13: on every constraint set over the three constraints, AddConstraint(c) twice
\* gives the set AddConstraint(c) gives once, and so for RemoveConstraint; and an
\* attempt whose step 1 finds "forward pending" already present, or "dispatch
\* pending" already absent, leaves the set as it is and goes on to the next step.
C13_IdempotentConstraints ==
  /\ \A cs \in SUBSET Constraint : \A c \in Constraint :
       /\ AddConstraint(AddConstraint(cs, c), c) = AddConstraint(cs, c)
       /\ RemoveConstraint(RemoveConstraint(cs, c), c) = RemoveConstraint(cs, c)
  /\ [][\A t \in Tasks :
          /\ (CallsOk(t, "AddConstraint", ForwardPending)
                /\ ForwardPending \in constraints[desc[t]]) =>
               constraints' = constraints /\ pc'[t] = "step1_remove"
          /\ (CallsOk(t, "RemoveConstraint", DispatchPending)
                /\ DispatchPending \notin constraints[desc[t]]) =>
               constraints' = constraints /\ pc'[t] = "step2"]_vars

\* two attempts on one bundle are both through step 1: the later one added
\* "forward pending" to a set that had it and removed "dispatch pending" from a
\* set that had lost it
C13_Witness ==
  \E t, u \in Tasks :
    /\ t # u /\ desc[t] = desc[u]
    /\ pc[t] = "step2" /\ pc[u] = "step2"
    /\ ForwardPending \in constraints[desc[t]]
    /\ DispatchPending \notin constraints[desc[t]]
\* C14: while an attempt on a bundle is between its AddConstraint of step 1 and
\* its own removal of "forward pending" (step 6) or reset (step 3), the bundle
\* carries "dispatch pending" or "forward pending", also when other attempts and
\* sweeps work on the same bundle.
C14_NeverBothAbsent ==
  \A t \in Tasks :
    (Active(t) /\ pc[t] # "step1_add") =>
      \/ DispatchPending \in constraints[desc[t]]
      \/ ForwardPending \in constraints[desc[t]]
\* p is between its Lock and its Unlock: a Send from its first to its last write
\* on the connection (and the marshalling before them), or the handler at its
\* keepalive write
InWritePath(p) ==
  \/ p \in Senders
       /\ mpc[p] \in {"marshal", "write_len", "write_payload", "flush", "probe", "unlock"}
  \/ p = Handler /\ mpc[p] = "keepalive_write"

\* C15: at most one goroutine is in the write path of the connection, and it
\* holds the mutex; so the handler is never at its keepalive write while a Send
\* is between its first and its last write, and no two Sends are.
C15_WritePathExclusive ==
  /\ Cardinality({p \in MProcs : InWritePath(p)}) <= 1
  /\ \A p \in MProcs : InWritePath(p) => mutex = p
  /\ mpc[Handler] = "keepalive_write" =>
       \A p \in Senders : mpc[p] \notin {"write_len", "write_payload", "flush", "probe"}

\* a Send is in the middle of its writes while the handler's ticker has fired and
\* the other Send has been called: both wait for the mutex
C15_Witness ==
  /\ mpc[Sender(1)] = "flush"
  /\ mpc[Handler] = "keepalive_lock"
  /\ mpc[Sender(2)] = "lock"
\* every goroutine of t's fan-out has returned from Send and called wg.Done()
SendsFinished(t) ==
  /\ wg[t] = 0
  /\ \A i \in DOMAIN sendSt[t] : sendSt[t][i] \in {"nil", "error"}

\* forwardBundle has returned to forwardingAsync: on the error of its Load, or
\* after the join and the whole recording loop
TransmitterReturned(t) ==
  \/ Len(trace[t]) = 5 /\ trace[t][5] = << "Load", desc[t], FALSE >>
  \/ /\ Len(trace[t]) >= 5 /\ trace[t][5] = << "Load", desc[t], TRUE >>
     /\ SendsFinished(t)
     /\ recI[t] = Len(successfulSends[t]) + 1

\* C16: a step in which an attempt records a peer in the already-sent set is
\* taken only when every Send of its fan-out has finished, and the step in which
\* it calls RemoveConstraint(ForwardPending) only when forwardBundle has returned.
C16_JoinBarrier ==
  [][\A t \in Tasks :
       /\ (\E eid \in {GetPeerEndpointID(q) : q \in Peers} :
             CallsOk(t, "AddAlreadySent", eid)) =>
            SendsFinished(t) /\ Len(sendSt[t]) = Len(forwardToPeers[t])
       /\ (\E ok \in BOOLEAN :
             trace'[t] = Append(trace[t], << "RemoveConstraint", ForwardPending, ok >>)) =>
            TransmitterReturned(t)]_vars

\* an attempt with a fan-out to at least two peers, of which one failed, has
\* recorded a success and has removed "forward pending"
C16_Witness ==
  \E t \in Tasks :
    /\ pc[t] = "done" /\ exit[t] = "forwarded"
    /\ Len(sendSt[t]) >= 2
    /\ \E i, j \in DOMAIN sendSt[t] : sendSt[t][i] = "nil" /\ sendSt[t][j] = "error"
    /\ Made(t, "AddAlreadySent")
    /\ Last(trace[t]) = << "RemoveConstraint", ForwardPending, TRUE >>
\* the step is the return of sweep s, with or without the error of GetDispatchable
SweepReturns(s, how) == swPc[s] = "idle" /\ swPc'[s] = how

\* the goroutines launched in the step
Launched == {t \in Tasks : pc[t] = "idle" /\ pc'[t] # "idle"}

\* C17: in the step in which DispatchPending returns, one goroutine has been
\* launched for each descriptor GetDispatchable returned and for nothing else,
\* each stands at the start of step 1 (none has been waited for), and no bundle's
\* constraints or already-sent set has changed; when GetDispatchable returned an
\* error, no goroutine has been launched and nothing has changed.
C17_SweepLaunches ==
  [][\A s \in Sweeps :
       /\ SweepReturns(s, "returned") =>
            LET got == GetDispatchable(constraints)
            IN /\ Cardinality(Launched) = Len(got)
               /\ \A k \in 1..Len(got) :
                    Cardinality({t \in Launched : desc'[t] = got[k]}) = 1
               /\ \A t \in Launched : pc'[t] = "step1_add" /\ trace'[t] = << >>
               /\ \A t \in Tasks \ Launched : pc'[t] = pc[t]
               /\ constraints' = constraints /\ alreadySent' = alreadySent
       /\ SweepReturns(s, "failed") =>
            /\ Launched = {}
            /\ pc' = pc /\ desc' = desc
            /\ constraints' = constraints /\ alreadySent' = alreadySent]_vars

\* one sweep has failed and another has returned after launching two goroutines,
\* neither of which has finished
C17_Witness ==
  /\ \E s \in Sweeps : swPc[s] = "failed"
  /\ \E s \in Sweeps : swPc[s] = "returned"
  /\ \A t \in Tasks : Active(t)
  /\ \E t, u \in Tasks : desc[t] # desc[u]
\* p has panicked in close(client.stopSyn): the channel was already closed
SecondClose(p) ==
  /\ panicking[p]
  /\ p \in Senders => closeCalled[p]

\* C18: stopSyn is closed at most once: no goroutine panics in
\* close(client.stopSyn), whether Close is called by a failing Send, by the
\* handler after a failed keepalive write or from outside, and the handler is
\* never left with an unrecovered panic.
C18_StopSynClosedOnce ==
  /\ \A p \in MProcs : ~SecondClose(p)
  /\ mpc[Handler] # "panicked"
  /\ ~crashed
\* the Close called by Send p has closed stopSyn and waits for stopAck
SendAwaitsAck(p) == p \in Senders /\ mpc[p] = "close_ack" /\ stopAck # "closed"

\* C19: a Send that calls Close has released the mutex before, so while its Close
\* waits for stopAck the mutex is free or held by a goroutine that is writing and
\* will release it, and the handler, wherever it stands, gets back to its select
\* and takes the stop case: it is not in a call of Close of its own and has not
\* panicked.
C19_SendClosesUnlocked ==
  \A p \in Senders :
    /\ mpc[p] \in {"close_syn", "close_ack", "close_notify"} => mutex # p
    /\ SendAwaitsAck(p) =>
         /\ \A q \in MProcs : mutex = q => InWritePath(q)
         /\ mpc[Handler] \in {"start", "select", "keepalive_lock", "keepalive_write"}
\* C20: NotifyConnect is called once for an activated client, as the first thing
\* its handler does; NotifyDisconnect is never called before it, also when Close
\* is called before the handler has run; and a client whose dial failed has no
\* handler and no notification.
C20_ConnectBeforeDisconnect ==
  /\ Count(notifications, "connect") <= 1
  /\ mpc[Handler] \notin {"off", "start"} => Count(notifications, "connect") = 1
  /\ Count(notifications, "disconnect") > 0 => notifications[1] = "connect"
  /\ (\E p \in MProcs : mpc[p] = "close_ack" /\ mpc[Handler] = "start") =>
       stopAck = "open" /\ notifications = << >>
  /\ activated = "failed" => notifications = << >> /\ mpc[Handler] = "off"
  /\ activated = "new" => notifications = << >> /\ mpc[Handler] = "off"

\* Close has been called, and has closed stopSyn, before the handler has run its
\* first statement
C20_Witness ==
  /\ mpc[Closer(1)] = "close_ack"
  /\ mpc[Handler] = "start"
  /\ stopSyn = "closed"
====
